---- MODULE Spec2Model ----
(***************************************************************************)
(* Model of the notebook use_case_climate_data.ipynb: one run of its code  *)
(* cells in order ("Run All"), each cell one step; an uncaught exception in *)
(* a cell stops the run.                                                    *)
(*                                                                          *)
(* Units: coordinates are integers in abstract grid units; temperatures are *)
(* integers in hundredths of a degree (25 degC = 2500, 273.15 K = 27315).   *)
(* Indices xloc, yloc are Python's 0-based indices; sequences are 1-based.  *)
(***************************************************************************)
EXTENDS Integers, Sequences, FiniteSets, TLC

VARIABLES
    pc,                     \* the next cell to execute
    fault,                  \* "none", or the exception that stopped the run
    place_value,            \* place_box.value
    year_value,             \* year_box.value
    location,               \* result of geolocator.geocode
    cat_df,                 \* cat.df: rows [time_range, zarr_path]
    query_result_df,        \* rows [start_year, end_year, zarr_path]
    selected_file,          \* the rows of query_result_df that cover the year
    selected_path,          \* zarr_path of the first selected row, "" if unbound
    lat,                    \* tasmax_year_xr["lat"]
    lon,                    \* tasmax_year_xr["lon"]
    xloc,                   \* index bound by the nearest-cell step, -1 unbound
    yloc,                   \* index bound by the nearest-cell step, -1 unbound
    marker,                 \* the "Model Grid Cell Center" marker, <<>> if none
    rect,                   \* the rectangle drawn on the map, <<>> if none
    tasmax_year_place_xr,   \* the extracted cell: its coordinates and values
    no_summer_days_model,   \* the count, -1 if unbound
    summary                 \* the result sentences written to the console

vars == <<pc, fault, place_value, year_value, location, cat_df, query_result_df,
          selected_file, selected_path, lat, lon, xloc, yloc, marker,
          rect, tasmax_year_place_xr, no_summer_days_model, summary>>

(***************************************************************************)
(* Bounds of the model.                                                     *)
(***************************************************************************)
CoordMax == 3           \* coordinates range over 0..CoordMax
MaxDays == 3            \* longest series of the counting specification
MaxRecords == 2         \* most rows of a catalog query result
RunCoordMax == 2        \* coordinates met by a whole run of the notebook

(***************************************************************************)
(* Generic helpers.                                                         *)
(***************************************************************************)
Abs(x) == IF x < 0 THEN -x ELSE x

Maximum(a, b) == IF a >= b THEN a ELSE b

SetMin(S) == CHOOSE m \in S : \A s \in S : m <= s

RECURSIVE SortedSeq(_)
SortedSeq(S) ==
    IF S = {} THEN <<>> ELSE <<SetMin(S)>> \o SortedSeq(S \ {SetMin(S)})

\* A coordinate axis of a regular grid: strictly increasing values.
AxisSeqs(max) == {SortedSeq(S) : S \in (SUBSET (0..max)) \ {{}}}

SeqsUpTo(S, n) == UNION {[1..k -> S] : k \in 0..n}

\* Python's s[k] for an integer k: negative k counts from the end.
InRange(s, k) == k >= -Len(s) /\ k < Len(s)

At(s, k) == IF k < 0 THEN s[Len(s) + k + 1] ELSE s[k + 1]

(***************************************************************************)
(* The catalog: rows of cat.df carry time_range as text, "YYYYMMDD-YYYYMMDD" *)
(* (a sequence of characters here), and the path of the dataset.            *)
(***************************************************************************)
Digits == <<"0", "1", "2", "3", "4", "5", "6", "7", "8", "9">>

DigitChar(d) == Digits[d + 1]

CharValue(ch) == CHOOSE d \in 0..9 : Digits[d + 1] = ch

Str4(n) == <<DigitChar(n \div 1000), DigitChar((n \div 100) % 10),
             DigitChar((n \div 10) % 10), DigitChar(n % 10)>>

TimeRange(first, last) ==
    Str4(first) \o <<"0", "1", "0", "1", "-">> \o Str4(last) \o <<"1", "2", "3", "1">>

CatalogRow(first, last, path) ==
    [time_range |-> TimeRange(first, last), zarr_path |-> path]

\* Rows a query can return: two consecutive files and one spanning both.
CatalogRows == {CatalogRow(2015, 2019, "tasmax_2015-2019"),
                CatalogRow(2020, 2024, "tasmax_2020-2024"),
                CatalogRow(2015, 2024, "tasmax_2015-2024")}

Catalogs == SeqsUpTo(CatalogRows, MaxRecords)

\* year_box offers range(2015, 2101); the years tried.
YearOptions == {2019, 2020, 2100}

PlaceOptions == {"Hamburg", "Atlantis"}

\* Python's s[a:b] for 0 <= a <= b <= len(s).
Slice(s, a, b) == SubSeq(s, a + 1, b)

\* int() of a text of decimal digits.
RECURSIVE AsInt(_)
AsInt(s) ==
    IF s = <<>> THEN 0
    ELSE AsInt(SubSeq(s, 1, Len(s) - 1)) * 10 + CharValue(s[Len(s)])

\* Variant: the end year read from the columns of the start year.
end_year_copy(row) == AsInt(Slice(row.time_range, 0, 4))

start_year(row) == AsInt(Slice(row.time_range, 0, 4))

end_year(row) == AsInt(Slice(row.time_range, 9, 13))

\* query_result_df: the copy of cat.df with start_year and end_year added and
\* time_range dropped.
WithYears(df) ==
    [k \in 1..Len(df) |-> [start_year |-> start_year(df[k]),
                           end_year |-> end_year(df[k]),
                           zarr_path |-> df[k].zarr_path]]

\* Variant: the two comparisons joined with | instead of &.
CoversYearEither(row, year) == year >= row.start_year \/ year <= row.end_year

\* The boolean mask of the selection.
CoversYear(row, year) == year >= row.start_year /\ year <= row.end_year

\* df[mask]: the rows the mask keeps, in the order of df.
RowsCovering(df, year) == SelectSeq(df, LAMBDA row : CoversYear(row, year))

\* selected_file["zarr_path"].values[0]
FirstPath(rows) == rows[1].zarr_path

(***************************************************************************)
(* The geocoder and the remote dataset.                                     *)
(***************************************************************************)
Unbound == [kind |-> "unbound"]

None == [kind |-> "None"]

Location(la, lo) == [kind |-> "Location", latitude |-> la, longitude |-> lo]

Locations(max) == {Location(la, lo) : la \in 0..max, lo \in 0..max}

\* geolocator.geocode(place): the default place resolves, to coordinates
\* that depend on the geocoder; a place that does not exist gives None.
GeocodeResults(place) ==
    IF place = "Hamburg" THEN Locations(RunCoordMax) ELSE {None}

\* Daily maxima in hundredths of a kelvin: 20.00, 25.00, 25.01 and 30.00 degC.
KelvinSamples == {29315, 29815, 29816, 30315}

\* The series a whole run of the notebook reads.
RunSeries == {<<>>, <<29815>>, <<29816, 30315>>}

KelvinOffset == 27315

SummerDayThreshold == 2500

NoCell == [bound |-> FALSE, lat |-> -1, lon |-> -1, values |-> <<>>]

(***************************************************************************)
(* Nearest grid cell.                                                       *)
(***************************************************************************)
\* np.abs(tasmax_year_xr["lat"] - location.latitude)
abslat(L, loc) == [i \in 1..Len(L) |-> Abs(L[i] - loc.latitude)]

\* Variant: the longitudes compared with the latitude of the location.
abslon_lat(M, loc) == [j \in 1..Len(M) |-> Abs(M[j] - loc.latitude)]

\* np.abs(tasmax_year_xr["lon"] - location.longitude)
abslon(M, loc) == [j \in 1..Len(M) |-> Abs(M[j] - loc.longitude)]

\* np.maximum(abslon, abslat): the operands have different dimensions, so the
\* result is their outer combination with dimensions (lon, lat).
c(L, M, loc) ==
    [j \in 1..Len(M) |-> [i \in 1..Len(L) |->
        Maximum(abslon(M, loc)[j], abslat(L, loc)[i])]]

\* Variant: np.max in place of np.min.
MaxOf(cs) ==
    LET all == {cs[j][i] : j \in 1..Len(cs), i \in 1..Len(cs[1])}
    IN  CHOOSE m \in all : \A v \in all : v <= m

\* np.min(c)
MinOf(cs) == SetMin({cs[j][i] : j \in 1..Len(cs), i \in 1..Len(cs[1])})

\* np.where(c == np.min(c)): the 0-based index pairs (row, column) of the
\* cells equal to the minimum, in row-major order.
Where(cs) ==
    LET K == Len(cs)
        N == Len(cs[1])
        flat == [k \in 1..(K * N) |-> <<(k - 1) \div N, (k - 1) % N>>]
    IN  SelectSeq(flat, LAMBDA p : cs[p[1] + 1][p[2] + 1] = MinOf(cs))

\* Variant: the two indices in the other order, tasmax_year_xr[:, xloc, yloc].
CellAtSwapped(L, M, y, x) ==
    IF InRange(L, x) /\ InRange(M, y)
    THEN [ok |-> TRUE, lat |-> At(L, x), lon |-> At(M, y)]
    ELSE [ok |-> FALSE, lat |-> -1, lon |-> -1]

\* tasmax_year_xr[:, yloc, xloc]: the dimensions are (time, lat, lon).
CellAt(L, M, y, x) ==
    IF InRange(L, y) /\ InRange(M, x)
    THEN [ok |-> TRUE, lat |-> At(L, y), lon |-> At(M, x)]
    ELSE [ok |-> FALSE, lat |-> -1, lon |-> -1]

\* The values of the cell less 273.15.
ToCelsius(kelvin) == [d \in 1..Len(kelvin) |-> kelvin[d] - KelvinOffset]

\* Variant: >= in place of >.
RECURSIVE CountAtLeast(_, _)
CountAtLeast(values, T) ==
    IF values = <<>> THEN 0
    ELSE (IF values[1] >= T THEN 1 ELSE 0) + CountAtLeast(Tail(values), T)

\* Variant: < in place of >.
RECURSIVE CountBelow(_, _)
CountBelow(values, T) ==
    IF values = <<>> THEN 0
    ELSE (IF values[1] < T THEN 1 ELSE 0) + CountBelow(Tail(values), T)

\* tasmax_year_place_xr[tasmax_year_place_xr > T].size
RECURSIVE CountAbove(_, _)
CountAbove(values, T) ==
    IF values = <<>> THEN 0
    ELSE (IF values[1] > T THEN 1 ELSE 0) + CountAbove(Tail(values), T)

(***************************************************************************)
(* The cells of the notebook, in the order they run.                        *)
(***************************************************************************)
\* Variant: the run goes on after an exception.
RunningAfterFault(cell) == pc = cell

\* A cell runs when the run has reached it and nothing has raised before.
Running(cell) == pc = cell /\ fault = "none"

\* The exception propagates: the run stops in the cell that raised it.
Raise(exception) == fault' = exception /\ pc' = pc

\* Cell 1: the place and year widgets; the user may change the defaults.
Widgets ==
    /\ Running("widgets")
    /\ place_value' \in PlaceOptions
    /\ year_value' \in YearOptions
    /\ pc' = "geocode"
    /\ UNCHANGED <<fault, location, cat_df, query_result_df, selected_file,
                   selected_path, lat, lon, xloc, yloc, marker, rect,
                   tasmax_year_place_xr, no_summer_days_model, summary>>

\* Cell 1.1: geocode returns a location, or None for a place it cannot
\* resolve; location.address then raises.
Geocode ==
    /\ Running("geocode")
    /\ location' \in GeocodeResults(place_value)
    /\ IF location' = None
       THEN Raise("AttributeError")
       ELSE pc' = "show_place" /\ UNCHANGED fault
    /\ UNCHANGED <<place_value, year_value, cat_df, query_result_df,
                   selected_file, selected_path, lat, lon, xloc, yloc, marker,
                   rect, tasmax_year_place_xr, no_summer_days_model, summary>>

\* Cell 1.2: the first map, with the place only.
ShowPlace ==
    /\ Running("show_place")
    /\ pc' = "open_catalog"
    /\ UNCHANGED <<fault, place_value, year_value, location, cat_df,
                   query_result_df, selected_file, selected_path, lat, lon,
                   xloc, yloc, marker, rect, tasmax_year_place_xr,
                   no_summer_days_model, summary>>

\* Cells 2.1 and 2.2: open the remote catalog and search it.
SearchCatalog ==
    /\ Running("open_catalog")
    /\ \/ /\ cat_df' \in Catalogs
          /\ pc' = "years"
          /\ UNCHANGED fault
       \/ /\ Raise("IOError")
          /\ UNCHANGED cat_df
    /\ UNCHANGED <<place_value, year_value, location, query_result_df,
                   selected_file, selected_path, lat, lon, xloc, yloc, marker,
                   rect, tasmax_year_place_xr, no_summer_days_model, summary>>

\* Cell 2.3, first part: the start and end year of every row.
ExtractYears ==
    /\ Running("years")
    /\ query_result_df' = WithYears(cat_df)
    /\ pc' = "select"
    /\ UNCHANGED <<fault, place_value, year_value, location, cat_df,
                   selected_file, selected_path, lat, lon, xloc, yloc, marker,
                   rect, tasmax_year_place_xr, no_summer_days_model, summary>>

\* Cell 2.3, second part: the rows that cover the year, and the path of the
\* first; .values[0] of no rows raises.
SelectFile ==
    /\ Running("select")
    /\ selected_file' = RowsCovering(query_result_df, year_value)
    /\ IF selected_file' = <<>>
       THEN Raise("IndexError") /\ UNCHANGED selected_path
       ELSE /\ selected_path' = FirstPath(selected_file')
            /\ pc' = "load"
            /\ UNCHANGED fault
    /\ UNCHANGED <<place_value, year_value, location, cat_df, query_result_df,
                   lat, lon, xloc, yloc, marker, rect, tasmax_year_place_xr,
                   no_summer_days_model, summary>>

\* Cell 3: open the remote dataset and slice the year; the coordinates of
\* its grid come with it, the values are read when used.
LoadData ==
    /\ Running("load")
    /\ \/ /\ lat' \in AxisSeqs(RunCoordMax)
          /\ lon' \in AxisSeqs(RunCoordMax)
          /\ pc' = "nearest"
          /\ UNCHANGED fault
       \/ /\ Raise("IOError")
          /\ UNCHANGED <<lat, lon>>
    /\ UNCHANGED <<place_value, year_value, location, cat_df, query_result_df,
                   selected_file, selected_path, xloc, yloc, marker, rect,
                   tasmax_year_place_xr, no_summer_days_model, summary>>

\* Cell 4, first part: ([xloc], [yloc]) = np.where(c == np.min(c)). Each of
\* the two index arrays must hold exactly one element to be unpacked.
NearestCell ==
    /\ Running("nearest")
    /\ LET found == Where(c(lat, lon, location))
       IN  IF Len(found) = 1
           THEN /\ xloc' = found[1][1]
                /\ yloc' = found[1][2]
                /\ pc' = "map"
                /\ UNCHANGED fault
           ELSE /\ Raise("ValueError")
                /\ UNCHANGED <<xloc, yloc>>
    /\ UNCHANGED <<place_value, year_value, location, cat_df, query_result_df,
                   selected_file, selected_path, lat, lon, marker, rect,
                   tasmax_year_place_xr, no_summer_days_model, summary>>

\* Cell 4, second part: the marker at the cell centre, then the rectangle
\* between the midpoints to the neighbouring coordinates (kept doubled here:
\* the sums, not the halves). An index past the end raises; -1 is the last.
DrawMap ==
    /\ Running("map")
    /\ marker' = <<At(lat, yloc), At(lon, xloc)>>
    /\ IF InRange(lat, yloc + 1) /\ InRange(lon, xloc + 1)
       THEN /\ rect' = <<At(lat, yloc - 1) + At(lat, yloc),
                         At(lon, xloc - 1) + At(lon, xloc),
                         At(lat, yloc + 1) + At(lat, yloc),
                         At(lon, xloc + 1) + At(lon, xloc)>>
            /\ pc' = "extract"
            /\ UNCHANGED fault
       ELSE /\ Raise("IndexError")
            /\ UNCHANGED rect
    /\ UNCHANGED <<place_value, year_value, location, cat_df, query_result_df,
                   selected_file, selected_path, lat, lon, xloc, yloc,
                   tasmax_year_place_xr, no_summer_days_model, summary>>

\* Cell 5, first part: the series of the cell in degC, and its plot.
ExtractSeries ==
    /\ Running("extract")
    /\ LET cell == CellAt(lat, lon, yloc, xloc)
       IN  IF cell.ok
           THEN /\ \E kelvin \in RunSeries :
                     tasmax_year_place_xr' =
                         [bound |-> TRUE, lat |-> cell.lat, lon |-> cell.lon,
                          values |-> ToCelsius(kelvin)]
                /\ pc' = "count"
                /\ UNCHANGED fault
           ELSE /\ Raise("IndexError")
                /\ UNCHANGED tasmax_year_place_xr
    /\ UNCHANGED <<place_value, year_value, location, cat_df, query_result_df,
                   selected_file, selected_path, lat, lon, xloc, yloc, marker,
                   rect, no_summer_days_model, summary>>

\* Cell 5, second part: the count and the result sentence.
CountSummerDays ==
    /\ Running("count")
    /\ no_summer_days_model' =
           CountAbove(tasmax_year_place_xr.values, SummerDayThreshold)
    /\ summary' = Append(summary, [days |-> no_summer_days_model',
                                   place |-> place_value,
                                   year |-> year_value])
    /\ pc' = "done"
    /\ UNCHANGED <<fault, place_value, year_value, location, cat_df,
                   query_result_df, selected_file, selected_path, lat, lon,
                   xloc, yloc, marker, rect, tasmax_year_place_xr>>

(***************************************************************************)
(* A whole run of the notebook.                                             *)
(***************************************************************************)
Init ==
    /\ pc = "widgets"
    /\ fault = "none"
    /\ place_value = "Hamburg"
    /\ year_value = 2015
    /\ location = Unbound
    /\ cat_df = <<>>
    /\ query_result_df = <<>>
    /\ selected_file = <<>>
    /\ selected_path = ""
    /\ lat = <<>>
    /\ lon = <<>>
    /\ xloc = -1
    /\ yloc = -1
    /\ marker = <<>>
    /\ rect = <<>>
    /\ tasmax_year_place_xr = NoCell
    /\ no_summer_days_model = -1
    /\ summary = <<>>

Next ==
    \/ Widgets
    \/ Geocode
    \/ ShowPlace
    \/ SearchCatalog
    \/ ExtractYears
    \/ SelectFile
    \/ LoadData
    \/ NearestCell
    \/ DrawMap
    \/ ExtractSeries
    \/ CountSummerDays

Spec == Init /\ [][Next]_vars

(***************************************************************************)
(* Dataset selection on its own: every query result and year, run from the  *)
(* cell that reads the years to the cell that selects the file.             *)
(***************************************************************************)
InitSelect ==
    /\ pc = "years"
    /\ fault = "none"
    /\ place_value = "Hamburg"
    /\ year_value \in YearOptions
    /\ location = Location(0, 0)
    /\ cat_df \in Catalogs
    /\ query_result_df = <<>>
    /\ selected_file = <<>>
    /\ selected_path = ""
    /\ lat = <<>>
    /\ lon = <<>>
    /\ xloc = -1
    /\ yloc = -1
    /\ marker = <<>>
    /\ rect = <<>>
    /\ tasmax_year_place_xr = NoCell
    /\ no_summer_days_model = -1
    /\ summary = <<>>

NextSelect == ExtractYears \/ SelectFile

SpecSelect == InitSelect /\ [][NextSelect]_vars

(***************************************************************************)
(* The nearest cell on its own: every grid and target point, run from the   *)
(* nearest-cell step to the extraction of the series.                       *)
(***************************************************************************)
InitNearest ==
    /\ pc = "nearest"
    /\ fault = "none"
    /\ place_value = "Hamburg"
    /\ year_value = 2015
    /\ location \in Locations(CoordMax)
    /\ cat_df = <<CatalogRow(2015, 2019, "tasmax_2015-2019")>>
    /\ query_result_df = WithYears(cat_df)
    /\ selected_file = query_result_df
    /\ selected_path = "tasmax_2015-2019"
    /\ lat \in AxisSeqs(CoordMax)
    /\ lon \in AxisSeqs(CoordMax)
    /\ xloc = -1
    /\ yloc = -1
    /\ marker = <<>>
    /\ rect = <<>>
    /\ tasmax_year_place_xr = NoCell
    /\ no_summer_days_model = -1
    /\ summary = <<>>

NextNearest == NearestCell \/ DrawMap \/ ExtractSeries

SpecNearest == InitNearest /\ [][NextNearest]_vars

(***************************************************************************)
(* The count on its own: every series, run through the counting cell.       *)
(***************************************************************************)
InitCount ==
    /\ pc = "count"
    /\ fault = "none"
    /\ place_value = "Hamburg"
    /\ year_value = 2015
    /\ location = Location(1, 1)
    /\ cat_df = <<CatalogRow(2015, 2019, "tasmax_2015-2019")>>
    /\ query_result_df = WithYears(cat_df)
    /\ selected_file = query_result_df
    /\ selected_path = "tasmax_2015-2019"
    /\ lat = <<0, 1, 2>>
    /\ lon = <<0, 1, 2>>
    /\ xloc = 1
    /\ yloc = 1
    /\ marker = <<1, 1>>
    /\ rect = <<1, 1, 3, 3>>
    /\ \E kelvin \in SeqsUpTo(KelvinSamples, MaxDays) :
         tasmax_year_place_xr =
             [bound |-> TRUE, lat |-> 1, lon |-> 1, values |-> ToCelsius(kelvin)]
    /\ no_summer_days_model = -1
    /\ summary = <<>>

NextCount == CountSummerDays

SpecCount == InitCount /\ [][NextCount]_vars

(***************************************************************************)
(* Reference notions the properties are stated with; none is used by the    *)
(* cells above.                                                             *)
(***************************************************************************)
\* The nearest-cell step has run (to completion, or to its exception).
NearestRan == pc # "nearest" \/ fault # "none"

\* The nearest-cell step has completed and bound xloc and yloc.
NearestBound == pc # "nearest"

\* Chebyshev cost of the cell at latitude i and longitude j (1-based).
Cheb(i, j) == Maximum(Abs(lat[i] - location.latitude),
                      Abs(lon[j] - location.longitude))

GridCells == (1..Len(lat)) \X (1..Len(lon))

MinimalCells == {p \in GridCells :
                    \A q \in GridCells : Cheb(p[1], p[2]) <= Cheb(q[1], q[2])}

\* The first of a set of cells in row-major order (rows are latitudes).
FirstRowMajor(cells) ==
    CHOOSE p \in cells :
        \A q \in cells : p[1] < q[1] \/ (p[1] = q[1] /\ p[2] <= q[2])

\* The years a catalog row covers, read off its time_range by comparison
\* with the text of every candidate interval.
CandidateYears == {2015, 2019, 2020, 2024}

Interval(row) ==
    CHOOSE iv \in CandidateYears \X CandidateYears :
        row.time_range = TimeRange(iv[1], iv[2])

Matching == {k \in 1..Len(cat_df) :
                /\ Interval(cat_df[k])[1] <= year_value
                /\ year_value <= Interval(cat_df[k])[2]}

\* The selection cell has run (to completion, or to its exception).
SelectRan == pc = "load" \/ (pc = "select" /\ fault # "none")

\* The samples of the extracted series above, or at or above, a threshold.
DaysAbove(T) == {d \in 1..Len(tasmax_year_place_xr.values) :
                    tasmax_year_place_xr.values[d] > T}

DaysAtLeast(T) == {d \in 1..Len(tasmax_year_place_xr.values) :
                      tasmax_year_place_xr.values[d] >= T}

ThresholdSamples == {1999, 2000, 2499, 2500, 2501, 3000}

CellOrder == <<"widgets", "geocode", "show_place", "open_catalog", "years",
               "select", "load", "nearest", "map", "extract", "count", "done">>

Position(cell) == CHOOSE k \in 1..Len(CellOrder) : CellOrder[k] = cell

C2_TieBreakFirstCell ==
    (NearestRan /\ Cardinality(MinimalCells) >= 2) =>
        /\ NearestBound
        /\ <<yloc + 1, xloc + 1>> = FirstRowMajor(MinimalCells)

C4_CountAtLeast ==
    pc = "done" => no_summer_days_model = Cardinality(DaysAtLeast(2500))

(***************************************************************************)
(* C5. If some catalog row covers the year, the selected path is the path   *)
(* of the first row, in catalog order, whose interval contains the year.    *)
(***************************************************************************)
C5_FirstCoveringRow ==
    (SelectRan /\ Matching # {}) =>
        /\ pc = "load"
        /\ fault = "none"
        /\ selected_path = cat_df[SetMin(Matching)].zarr_path

C5_Witness ==
    /\ pc = "load"
    /\ Cardinality(Matching) = 2
    /\ cat_df[1].zarr_path # cat_df[2].zarr_path

(***************************************************************************)
(* C6. If no catalog row covers the year, the selection is empty, taking    *)
(* its first element raises, and no path is selected; a row whose interval  *)
(* does not contain the year is never selected.                             *)
(***************************************************************************)
C6_NoCoveringRowFaults ==
    /\ (SelectRan /\ Matching = {}) =>
           /\ selected_file = <<>>
           /\ pc = "select"
           /\ fault = "IndexError"
           /\ selected_path = ""
    /\ SelectRan =>
           \A k \in 1..Len(selected_file) :
               \E m \in Matching :
                   selected_file[k].zarr_path = cat_df[m].zarr_path

C6_Witness ==
    /\ pc = "select"
    /\ fault = "IndexError"
    /\ Len(cat_df) = 2
    /\ year_value = 2020

(***************************************************************************)
(* C7. For a target whose latitude is a grid latitude L[i] and whose        *)
(* longitude is a grid longitude M[j], the nearest-cell step completes and  *)
(* binds that cell, of cost 0.                                              *)
(***************************************************************************)
C7_ExactHit ==
    NearestRan =>
        \A p \in GridCells :
            (lat[p[1]] = location.latitude /\ lon[p[2]] = location.longitude) =>
                /\ NearestBound
                /\ yloc = p[1] - 1
                /\ xloc = p[2] - 1
                /\ Cheb(yloc + 1, xloc + 1) = 0

C7_Witness ==
    /\ pc = "map"
    /\ Len(lat) = 3
    /\ Len(lon) = 2
    /\ lat[yloc + 1] = location.latitude
    /\ lon[xloc + 1] = location.longitude
    /\ yloc = 2
    /\ xloc = 0

(***************************************************************************)
(* C8. The cells run strictly in order; a cell that raises stops the run:   *)
(* no cell runs after it, it is not run again, and the result sentence is   *)
(* written only by a run in which no cell raised.                           *)
(***************************************************************************)
C8_FaultsAreFatal ==
    /\ [][/\ fault = "none"
          /\ \/ fault' = "none" /\ Position(pc') = Position(pc) + 1
             \/ fault' # "none" /\ pc' = pc]_vars
    /\ [](summary # <<>> => (fault = "none" /\ pc = "done" /\ Len(summary) = 1))
    /\ [](location.kind = "None" => (pc = "geocode" /\ fault = "AttributeError"))
    /\ []((Position(pc) >= Position("select") /\ Matching = {}) =>
              (pc = "select" /\ (fault = "none" \/ fault = "IndexError")))
    /\ [](fault = "IOError" => (pc \in {"open_catalog", "load"} /\ summary = <<>>))

C8_Witness ==
    /\ pc = "load"
    /\ fault = "IOError"
    /\ selected_path # ""
    /\ summary = <<>>

(***************************************************************************)
(* C9. The count is 0 for an empty series, and for thresholds T1 <= T2 the  *)
(* count for T2 is at most the count for T1.                                *)
(***************************************************************************)
C9_CountMonotone ==
    /\ (pc = "done" /\ tasmax_year_place_xr.values = <<>>) =>
           no_summer_days_model = 0
    /\ tasmax_year_place_xr.bound =>
           \A T1, T2 \in ThresholdSamples :
               T1 <= T2 =>
                   CountAbove(tasmax_year_place_xr.values, T2)
                       <= CountAbove(tasmax_year_place_xr.values, T1)

C9_Witness ==
    /\ pc = "done"
    /\ Len(tasmax_year_place_xr.values) = 3
    /\ CountAbove(tasmax_year_place_xr.values, 2000) = 3
    /\ CountAbove(tasmax_year_place_xr.values, 2500) = 2
    /\ CountAbove(tasmax_year_place_xr.values, 3000) = 0

(***************************************************************************)
(* C10. Whenever the nearest-cell step binds (xloc, yloc), yloc indexes the *)
(* latitude nearest the target latitude and xloc the longitude nearest the  *)
(* target longitude; the marker and the extracted series are those of       *)
(* latitude index yloc and longitude index xloc.                            *)
(***************************************************************************)
C10_AxesNotSwapped ==
    /\ NearestBound =>
           /\ yloc \in 0..(Len(lat) - 1)
           /\ xloc \in 0..(Len(lon) - 1)
           /\ \A i \in 1..Len(lat) :
                  Abs(lat[yloc + 1] - location.latitude)
                      <= Abs(lat[i] - location.latitude)
           /\ \A j \in 1..Len(lon) :
                  Abs(lon[xloc + 1] - location.longitude)
                      <= Abs(lon[j] - location.longitude)
    /\ marker # <<>> => marker = <<lat[yloc + 1], lon[xloc + 1]>>
    /\ tasmax_year_place_xr.bound =>
           /\ tasmax_year_place_xr.lat = lat[yloc + 1]
           /\ tasmax_year_place_xr.lon = lon[xloc + 1]

C10_Witness ==
    /\ pc = "count"
    /\ Len(lat) = 3
    /\ Len(lon) = 2
    /\ yloc = 1
    /\ xloc = 0
    /\ tasmax_year_place_xr.lat # tasmax_year_place_xr.lon

\* The map cell has run (to completion, or to its exception).
MapRan == pc \in {"extract", "count", "done"} \/ (pc = "map" /\ fault # "none")

(***************************************************************************)
(* C11. For every resolved cell, a cell on the first or last row or column  *)
(* included, the map step completes, each neighbour index it reads          *)
(* (yloc - 1, yloc + 1, xloc - 1, xloc + 1) is an index of the grid next to *)
(* the cell, and the rectangle corners are the midpoints (doubled here)     *)
(* between the cell's coordinate and the adjacent coordinates.              *)
(***************************************************************************)
C11_RectangleInsideGrid ==
    (NearestBound /\ MapRan) =>
        /\ fault = "none"
        /\ yloc - 1 >= 0
        /\ yloc + 1 <= Len(lat) - 1
        /\ xloc - 1 >= 0
        /\ xloc + 1 <= Len(lon) - 1
        /\ rect = <<lat[yloc] + lat[yloc + 1],
                    lon[xloc] + lon[xloc + 1],
                    lat[yloc + 2] + lat[yloc + 1],
                    lon[xloc + 2] + lon[xloc + 1]>>

====
